---- MODULE Spec2Model ----
(***************************************************************************)
(* Heuristic Navigation System (src/programs/hns.py).                      *)
(*                                                                         *)
(* The grid is the numpy matrix `map`: a sequence of rows, each a sequence *)
(* of cell values 0 (free), 1 (obstacle), 2 (visited), 3 (start),          *)
(* 4 (goal).  Python indices are 0-based and an index i into an axis of    *)
(* length n is legal for -n <= i < n (a negative index counts from the     *)
(* end); any other index raises IndexError.                                *)
(***************************************************************************)
EXTENDS Integers, Sequences, FiniteSets, TLC

VARIABLES
    map,                \* the occupancy matrix (mutated in place)
    init_x, init_y,     \* main(): requested start, as parsed by get_config
    goal_x, goal_y,     \* main(): requested goal, as parsed by get_config
    yarp_mode,          \* main(): actuator channel mode
    result_init,        \* assign_targets: check_location result for the start
    result_goal,        \* assign_targets: check_location result for the goal
    self_coordinate_x,  \* HNS.coordinate_x
    self_coordinate_y,  \* HNS.coordinate_y
    coordinate_x,       \* process(): local agent position
    coordinate_y,
    distance_x, distance_y, abs_distance_x, abs_distance_y,  \* process() locals
    up, down, right, left,                                   \* process() locals
    command,            \* last command taken from the buffer
    goal,               \* process(): loop exit flag
    steps,              \* process(): step counter
    outcome,            \* terminal event emitted: goal_achieved / goal_not_achieved
    sent,               \* number of commands written to the output port
    received,           \* number of acknowledgements read from the input port
    last_sent,          \* last command written to the output port
    reported_steps,     \* value printed by end_resume ("Steps: ")
    buffer,             \* process(): the queue.Queue of the current iteration
    worker,             \* the take_decision thread: idle / running / finished
    pc                  \* control location

vars == <<map, init_x, init_y, goal_x, goal_y, yarp_mode, result_init,
          result_goal, self_coordinate_x, self_coordinate_y, coordinate_x,
          coordinate_y, distance_x, distance_y, abs_distance_x,
          abs_distance_y, up, down, right, left, command, goal, steps,
          outcome, sent, received, last_sent, reported_steps, buffer,
          worker, pc>>

(***************************************************************************)
(* Bounds of the model.                                                    *)
(***************************************************************************)
Rows == 8           \* rows of the maps explored by the navigation runs
Cols == 3           \* columns of the maps explored by the navigation runs
MaxObstacles == 2   \* most obstacle cells in a map of a navigation run
ExampleSize == 5    \* side of the free square map
CorridorRows == 2   \* rows of the free corridor

(***************************************************************************)
(* Program constants.                                                      *)
(***************************************************************************)
default_init_x == 2
default_init_y == 2
default_goal_x == 7
default_goal_y == 2
StepLimit == 100

Commands == {"UP", "DOWN", "LEFT", "RIGHT", "NONE"}

Abs(n) == IF n < 0 THEN -n ELSE n

(***************************************************************************)
(* Matrix access with Python index semantics.                              *)
(***************************************************************************)
NumRows(m) == Len(m)
NumCols(m) == Len(m[1])

\* an index the matrix accepts on an axis of length n
ValidIndex(i, n) == (-n <= i) /\ (i < n)

\* both indices of map[x][y] are accepted
ValidCell(m, x, y) == ValidIndex(x, NumRows(m)) /\ ValidIndex(y, NumCols(m))

\* map[x][y] for accepted indices: a negative index counts from the end
Cell(m, x, y) == m[(x % NumRows(m)) + 1][(y % NumCols(m)) + 1]

\* map[x][y] = v
SetCell(m, x, y, v) ==
    [m EXCEPT ![(x % NumRows(m)) + 1][(y % NumCols(m)) + 1] = v]

\* number of cells of m that hold v
CountCells(m, v) ==
    Cardinality({rc \in (1..NumRows(m)) \X (1..NumCols(m)) : m[rc[1]][rc[2]] = v})

(***************************************************************************)
(* check_location: the cell is legal to index and holds 0.                 *)
(***************************************************************************)
check_location(m, x, y) == ValidCell(m, x, y) /\ Cell(m, x, y) = 0

(***************************************************************************)
(* analyze: the four neighbour values; a lookup that raises is absorbed    *)
(* as the obstacle value.  (The code stores the string '1' there, which    *)
(* like the integer 1 is equal neither to 0 nor to 4.)                     *)
(***************************************************************************)
Lookup(m, x, y) == IF ValidCell(m, x, y) THEN Cell(m, x, y) ELSE 1

analyze(m, x, y) ==
    [up    |-> Lookup(m, x - 1, y),
     down  |-> Lookup(m, x + 1, y),
     right |-> Lookup(m, x, y + 1),
     left  |-> Lookup(m, x, y - 1)]

(***************************************************************************)
(* get_distance                                                            *)
(***************************************************************************)
\* get_distance that takes the column of the agent for the column of the goal
get_distance_row_only(cx, cy, gx, gy) ==
    [distance_x     |-> gx - cx,
     distance_y     |-> 0,
     abs_distance_x |-> Abs(gx - cx),
     abs_distance_y |-> 0]

get_distance_reversed(cx, cy, gx, gy) ==
    [distance_x     |-> cx - gx,
     distance_y     |-> cy - gy,
     abs_distance_x |-> Abs(cx - gx),
     abs_distance_y |-> Abs(cy - gy)]

get_distance(cx, cy, gx, gy) ==
    [distance_x     |-> gx - cx,
     distance_y     |-> gy - cy,
     abs_distance_x |-> Abs(gx - cx),
     abs_distance_y |-> Abs(gy - cy)]

(***************************************************************************)
(* take_decision.  Available(v) is the test `(v == 0) or (v == 4)` the     *)
(* code repeats for every candidate direction.  The four operators below   *)
(* are the four axis-dominance branches; u, d, r, l are the neighbour      *)
(* values up, down, right, left.                                           *)
(***************************************************************************)
Available(v) == (v = 0) \/ (v = 4)

\* vertical distance dominant, goal above (distance_x < 0)
VerticalUp(u, d, r, l, dy) ==
    IF Available(u) THEN "UP"
    ELSE IF dy < 0
         THEN IF Available(l) THEN "LEFT"
              ELSE IF Available(r) THEN "RIGHT"
              ELSE IF Available(d) THEN "DOWN"
              ELSE "NONE"
         ELSE IF Available(r) THEN "RIGHT"
              ELSE IF Available(l) THEN "LEFT"
              ELSE IF Available(d) THEN "DOWN"
              ELSE "NONE"

\* VerticalDown with the two horizontal fallbacks tried in the same order
\* whatever the sign of distance_y
VerticalDown_right_first(u, d, r, l, dy) ==
    IF Available(d) THEN "DOWN"
    ELSE IF Available(r) THEN "RIGHT"
    ELSE IF Available(l) THEN "LEFT"
    ELSE IF Available(u) THEN "UP"
    ELSE "NONE"

\* vertical distance dominant, goal not above
VerticalDown(u, d, r, l, dy) ==
    IF Available(d) THEN "DOWN"
    ELSE IF dy < 0
         THEN IF Available(l) THEN "LEFT"
              ELSE IF Available(r) THEN "RIGHT"
              ELSE IF Available(u) THEN "UP"
              ELSE "NONE"
         ELSE IF Available(r) THEN "RIGHT"
              ELSE IF Available(l) THEN "LEFT"
              ELSE IF Available(u) THEN "UP"
              ELSE "NONE"

\* HorizontalLeft that gives up the other axis after its first candidate
HorizontalLeft_no_third(u, d, r, l, dx) ==
    IF Available(l) THEN "LEFT"
    ELSE IF dx < 0
         THEN IF Available(u) THEN "UP"
              ELSE IF Available(r) THEN "RIGHT"
              ELSE "NONE"
         ELSE IF Available(d) THEN "DOWN"
              ELSE IF Available(r) THEN "RIGHT"
              ELSE "NONE"

\* horizontal distance dominant, goal to the left (distance_y < 0)
HorizontalLeft(u, d, r, l, dx) ==
    IF Available(l) THEN "LEFT"
    ELSE IF dx < 0
         THEN IF Available(u) THEN "UP"
              ELSE IF Available(d) THEN "DOWN"
              ELSE IF Available(r) THEN "RIGHT"
              ELSE "NONE"
         ELSE IF Available(d) THEN "DOWN"
              ELSE IF Available(u) THEN "UP"
              ELSE IF Available(r) THEN "RIGHT"
              ELSE "NONE"

\* HorizontalRight with the test on dx written <= instead of <
HorizontalRight_zero_up(u, d, r, l, dx) ==
    IF Available(r) THEN "RIGHT"
    ELSE IF dx <= 0
         THEN IF Available(u) THEN "UP"
              ELSE IF Available(d) THEN "DOWN"
              ELSE IF Available(l) THEN "LEFT"
              ELSE "NONE"
         ELSE IF Available(d) THEN "DOWN"
              ELSE IF Available(u) THEN "UP"
              ELSE IF Available(r) THEN "LEFT"
              ELSE "NONE"

\* horizontal distance dominant, goal not to the left
HorizontalRight(u, d, r, l, dx) ==
    IF Available(r) THEN "RIGHT"
    ELSE IF dx < 0
         THEN IF Available(u) THEN "UP"
              ELSE IF Available(d) THEN "DOWN"
              ELSE IF Available(l) THEN "LEFT"
              ELSE "NONE"
         ELSE IF Available(d) THEN "DOWN"
              ELSE IF Available(u) THEN "UP"
              ELSE IF Available(r) THEN "LEFT"   \* tests right, emits LEFT
              ELSE "NONE"

\* take_decision with the dominance test written > instead of >=
take_decision_strict(u, d, r, l, dx, dy, adx, ady) ==
    IF adx > ady
    THEN IF dx < 0 THEN VerticalUp(u, d, r, l, dy)
                   ELSE VerticalDown(u, d, r, l, dy)
    ELSE IF dy < 0 THEN HorizontalLeft(u, d, r, l, dx)
                   ELSE HorizontalRight(u, d, r, l, dx)

take_decision(u, d, r, l, dx, dy, adx, ady) ==
    IF adx >= ady
    THEN IF dx < 0 THEN VerticalUp(u, d, r, l, dy)
                   ELSE VerticalDown(u, d, r, l, dy)
    ELSE IF dy < 0 THEN HorizontalLeft(u, d, r, l, dx)
                   ELSE HorizontalRight(u, d, r, l, dx)

(***************************************************************************)
(* clear_previous_location / update_map: mark the cell visited unless it   *)
(* is a singular point (3 or 4).                                           *)
(***************************************************************************)
\* clear_previous_location that frees the cell instead of marking it
clear_previous_location_frees(m, x, y) ==
    IF (Cell(m, x, y) = 3) \/ (Cell(m, x, y) = 4) THEN m
    ELSE SetCell(m, x, y, 0)

clear_previous_location(m, x, y) ==
    IF (Cell(m, x, y) = 3) \/ (Cell(m, x, y) = 4) THEN m
    ELSE SetCell(m, x, y, 2)

\* update_map without the singular-point test
update_map_unguarded(m, x, y) == SetCell(m, x, y, 2)

update_map(m, x, y) ==
    IF (Cell(m, x, y) = 3) \/ (Cell(m, x, y) = 4) THEN m
    ELSE SetCell(m, x, y, 2)

(***************************************************************************)
(* move: clear the departed cell, shift the coordinate by the command,     *)
(* record it with update_location, mark the arrived cell.  Indexing the    *)
(* matrix with an index it does not accept raises IndexError, which move   *)
(* does not catch: `raised` tells that, `located` whether update_location  *)
(* had already run.                                                        *)
(***************************************************************************)
NextX_up_only(cmd, x) == IF cmd = "UP" THEN x - 1 ELSE x

NextX(cmd, x) == IF cmd = "UP" THEN x - 1 ELSE IF cmd = "DOWN" THEN x + 1 ELSE x
NextY_mirrored(cmd, y) == IF cmd = "RIGHT" THEN y - 1 ELSE IF cmd = "LEFT" THEN y + 1 ELSE y

NextY(cmd, y) == IF cmd = "RIGHT" THEN y + 1 ELSE IF cmd = "LEFT" THEN y - 1 ELSE y

move(m, cmd, x, y) ==
    IF ~ValidCell(m, x, y)
    THEN [raised |-> TRUE, located |-> FALSE, map |-> m, x |-> x, y |-> y]
    ELSE LET m1 == clear_previous_location(m, x, y)
             nx == NextX(cmd, x)
             ny == NextY(cmd, y)
         IN  IF ~ValidCell(m1, nx, ny)
             THEN [raised |-> TRUE, located |-> TRUE, map |-> m1, x |-> nx, y |-> ny]
             ELSE [raised |-> FALSE, located |-> TRUE,
                   map |-> update_map(m1, nx, ny), x |-> nx, y |-> ny]

(***************************************************************************)
(* Screen.simulate reads init_x / goal_x, which it binds only while it     *)
(* scans a cell holding 3 / 4: on a matrix without one of them it raises.  *)
(***************************************************************************)
simulate_raises(m) == (CountCells(m, 3) = 0) \/ (CountCells(m, 4) = 0)

(***************************************************************************)
(* Inputs of a navigation run.  The requested start and goal are taken     *)
(* from the rows 0, 1, the default rows and the last row, in column 0, the  *)
(* default column or the last column, or lie one step outside the matrix   *)
(* (before row/column 0, or past the last row/column).  The map is free    *)
(* except for at most MaxObstacles obstacle cells, placed on the requested *)
(* start, next to it, or on the requested goal.                            *)
(***************************************************************************)
GridCells(R, C) == (0..(R - 1)) \X (0..(C - 1))

RECURSIVE ObstacleSets(_, _)
ObstacleSets(cells, k) ==
    IF k = 0 THEN {{}}
    ELSE LET P == ObstacleSets(cells, k - 1)
         IN  P \cup {S \cup {c} : S \in P, c \in cells}

MapOf(R, C, obstacles) ==
    [r \in 1..R |-> [c \in 1..C |-> IF <<r - 1, c - 1>> \in obstacles THEN 1 ELSE 0]]

RequestRows == {0, 1, default_init_x, default_goal_x, Rows - 1}
RequestCols == {0, default_init_y, Cols - 1}
Requests ==
    (RequestRows \X RequestCols) \cup {<<-1, -1>>, <<Rows, Cols>>}

ObstacleCandidates(sx, sy, gx, gy) ==
    {c \in GridCells(Rows, Cols) :
        \/ Abs(c[1] - sx) + Abs(c[2] - sy) <= 1
        \/ c = <<gx, gy>>}

(***************************************************************************)
(* Three further families of inputs:                                       *)
(*  - a start requested on an obstacle cell whose neighbours inside the    *)
(*    matrix are all obstacles;                                            *)
(*  - the free square map of side ExampleSize, from its first cell to the  *)
(*    last cell of its first row;                                          *)
(*  - a free corridor long enough for a straight run of StepLimit + 2      *)
(*    moves, with the goal StepLimit, StepLimit + 1 or StepLimit + 2       *)
(*    columns away from the start.                                         *)
(***************************************************************************)
EnclosedStarts == Requests \cap GridCells(Rows, Cols)

CorridorCols == StepLimit + 3
CorridorGoals == {StepLimit, StepLimit + 1, StepLimit + 2}

(***************************************************************************)
(* State after HNS() and get_config / get_map in main().                   *)
(***************************************************************************)
Init ==
    /\ \/ \E s \in Requests, g \in Requests :
             /\ init_x = s[1] /\ init_y = s[2]
             /\ goal_x = g[1] /\ goal_y = g[2]
             /\ \E S \in ObstacleSets(ObstacleCandidates(s[1], s[2], g[1], g[2]), MaxObstacles) :
                   map = MapOf(Rows, Cols, S)
       \/ \E s \in EnclosedStarts :
             /\ init_x = s[1] /\ init_y = s[2]
             /\ goal_x = 0 /\ goal_y = 0
             /\ map = MapOf(Rows, Cols, ObstacleCandidates(s[1], s[2], s[1], s[2]))
       \/ /\ init_x = 0 /\ init_y = 0
          /\ goal_x = 0 /\ goal_y = ExampleSize - 1
          /\ map = MapOf(ExampleSize, ExampleSize, {})
       \/ /\ init_x = 0 /\ init_y = 0
          /\ goal_x = 0 /\ goal_y \in CorridorGoals
          /\ map = MapOf(CorridorRows, CorridorCols, {})
    /\ yarp_mode \in BOOLEAN
    /\ result_init = FALSE /\ result_goal = FALSE
    /\ self_coordinate_x = default_init_x
    /\ self_coordinate_y = default_init_y
    /\ coordinate_x = 0 /\ coordinate_y = 0
    /\ distance_x = 0 /\ distance_y = 0
    /\ abs_distance_x = 0 /\ abs_distance_y = 0
    /\ up = 1 /\ down = 1 /\ right = 1 /\ left = 1
    /\ command = "NONE"
    /\ goal = FALSE
    /\ steps = 0
    /\ outcome = "none"
    /\ sent = 0 /\ received = 0 /\ last_sent = "NONE"
    /\ reported_steps = -1
    /\ buffer = <<>> /\ worker = "idle"
    /\ pc = "assign"

(***************************************************************************)
(* main(): assign_targets.                                                 *)
(***************************************************************************)
AssignTargets ==
    /\ pc = "assign"
    /\ LET r1 == check_location(map, init_x, init_y)
           sx == IF r1 THEN init_x ELSE default_init_x
           sy == IF r1 THEN init_y ELSE default_init_y
       IN  /\ result_init' = r1
           /\ IF ~ValidCell(map, sx, sy)
              THEN \* map[2][2] = 3 raises on a matrix without that cell
                   /\ pc' = "crashed"
                   /\ UNCHANGED <<map, result_goal, self_coordinate_x, self_coordinate_y>>
              ELSE LET m1 == SetCell(map, sx, sy, 3)
                       r2 == check_location(m1, goal_x, goal_y)
                       gx == IF r2 THEN goal_x ELSE default_goal_x
                       gy == IF r2 THEN goal_y ELSE default_goal_y
                   IN  /\ self_coordinate_x' = sx
                       /\ self_coordinate_y' = sy
                       /\ result_goal' = r2
                       /\ IF ~ValidCell(m1, gx, gy)
                          THEN map' = m1 /\ pc' = "crashed"
                          ELSE map' = SetCell(m1, gx, gy, 4) /\ pc' = "simulate"
    /\ UNCHANGED <<buffer, worker>>
    /\ UNCHANGED <<init_x, init_y, goal_x, goal_y, yarp_mode, coordinate_x,
                   coordinate_y, distance_x, distance_y, abs_distance_x,
                   abs_distance_y, up, down, right, left, command, goal, steps,
                   outcome, sent, received, last_sent, reported_steps>>

(***************************************************************************)
(* main(): the first screen.simulate, then the prologue of process():      *)
(* update_location(init_x, init_y) with the REQUESTED start, goal = False, *)
(* steps = 0.                                                              *)
(***************************************************************************)
StartProcess ==
    /\ pc = "simulate"
    /\ IF simulate_raises(map)
       THEN /\ pc' = "crashed"
            /\ UNCHANGED <<self_coordinate_x, self_coordinate_y, coordinate_x,
                           coordinate_y, goal, steps>>
       ELSE /\ self_coordinate_x' = init_x
            /\ self_coordinate_y' = init_y
            /\ coordinate_x' = init_x
            /\ coordinate_y' = init_y
            /\ goal' = FALSE
            /\ steps' = 0
            /\ pc' = "loop"
    /\ UNCHANGED <<buffer, worker>>
    /\ UNCHANGED <<map, init_x, init_y, goal_x, goal_y, yarp_mode, result_init,
                   result_goal, distance_x, distance_y, abs_distance_x,
                   abs_distance_y, up, down, right, left, command, outcome,
                   sent, received, last_sent, reported_steps>>

(***************************************************************************)
(* process(): the tail of an iteration that moved: the step-limit test,    *)
(* the increment of steps, show_map and screen.simulate.                   *)
(***************************************************************************)
\* the step-limit test as steps >= 100
FinishIteration_early_limit(m) ==
    LET limit == steps >= StepLimit
    IN  /\ outcome' = IF limit THEN "goal_not_achieved" ELSE outcome
        /\ goal' = limit
        /\ steps' = steps + 1
        /\ pc' = IF simulate_raises(m) THEN "crashed"
                 ELSE IF limit THEN "after_loop" ELSE "loop"

FinishIteration_keeps_looping(m) ==
    LET limit == steps > StepLimit
    IN  /\ outcome' = IF limit THEN "goal_not_achieved" ELSE outcome
        /\ goal' = FALSE
        /\ steps' = steps + 1
        /\ pc' = IF simulate_raises(m) THEN "crashed" ELSE "loop"

FinishIteration(m) ==
    LET limit == steps > StepLimit
    IN  /\ outcome' = IF limit THEN "goal_not_achieved" ELSE outcome
        /\ goal' = limit
        /\ steps' = steps + 1
        /\ pc' = IF simulate_raises(m) THEN "crashed"
                 ELSE IF limit THEN "after_loop" ELSE "loop"

(***************************************************************************)
(* process(): an iteration that finds both distances zero: goal_achieved,  *)
(* goal = True, then the increment of steps, show_map and screen.simulate. *)
(***************************************************************************)
GoalReached_after_send ==
    /\ outcome' = "goal_achieved"
    /\ goal' = TRUE
    /\ steps' = steps + 1
    /\ pc' = IF simulate_raises(map) THEN "crashed" ELSE "after_loop"
    /\ sent' = IF yarp_mode THEN sent + 1 ELSE sent
    /\ last_sent' = IF yarp_mode THEN command ELSE last_sent
    /\ UNCHANGED <<map, self_coordinate_x, self_coordinate_y,
                   coordinate_x, coordinate_y, command>>

GoalReached ==
    /\ outcome' = "goal_achieved"
    /\ goal' = TRUE
    /\ steps' = steps + 1
    /\ pc' = IF simulate_raises(map) THEN "crashed" ELSE "after_loop"
    /\ UNCHANGED <<map, self_coordinate_x, self_coordinate_y,
                   coordinate_x, coordinate_y, command, sent, last_sent>>

(***************************************************************************)
(* process(): one iteration of the control loop, up to the blocking        *)
(* receive of yarp_interaction when the channel is on.                     *)
(***************************************************************************)
ProcessStep ==
    /\ pc = "loop"
    /\ LET dist == get_distance(coordinate_x, coordinate_y, goal_x, goal_y)
           st   == analyze(map, coordinate_x, coordinate_y)
       IN  /\ distance_x' = dist.distance_x
           /\ distance_y' = dist.distance_y
           /\ abs_distance_x' = dist.abs_distance_x
           /\ abs_distance_y' = dist.abs_distance_y
           /\ up' = st.up /\ down' = st.down
           /\ right' = st.right /\ left' = st.left
           /\ IF (dist.abs_distance_x = 0) /\ (dist.abs_distance_y = 0)
              THEN GoalReached
              ELSE LET cmd == take_decision(st.up, st.down, st.right, st.left,
                                            dist.distance_x, dist.distance_y,
                                            dist.abs_distance_x, dist.abs_distance_y)
                       mv  == move(map, cmd, coordinate_x, coordinate_y)
                   IN  /\ command' = cmd
                       /\ map' = mv.map
                       /\ self_coordinate_x' = IF mv.located THEN mv.x ELSE self_coordinate_x
                       /\ self_coordinate_y' = IF mv.located THEN mv.y ELSE self_coordinate_y
                       /\ IF mv.raised
                          THEN /\ pc' = "crashed"
                               /\ UNCHANGED <<coordinate_x, coordinate_y, goal,
                                              steps, outcome, sent, last_sent>>
                          ELSE /\ coordinate_x' = mv.x
                               /\ coordinate_y' = mv.y
                               /\ IF yarp_mode
                                  THEN /\ sent' = sent + 1
                                       /\ last_sent' = cmd
                                       /\ pc' = "wait_ack"
                                       /\ UNCHANGED <<goal, steps, outcome>>
                                  ELSE /\ FinishIteration(mv.map)
                                       /\ UNCHANGED <<sent, last_sent>>
    /\ UNCHANGED <<buffer, worker>>
    /\ UNCHANGED <<init_x, init_y, goal_x, goal_y, yarp_mode, result_init,
                   result_goal, received, reported_steps>>

(***************************************************************************)
(* yarp_interaction inside the loop: the acknowledgement arrives, the      *)
(* iteration completes.                                                    *)
(***************************************************************************)
AckStep_without_receive ==
    /\ pc = "wait_ack"
    /\ FinishIteration(map)
    /\ UNCHANGED <<buffer, worker>>
    /\ UNCHANGED <<map, init_x, init_y, goal_x, goal_y, yarp_mode, result_init,
                   result_goal, self_coordinate_x, self_coordinate_y,
                   coordinate_x, coordinate_y, distance_x, distance_y,
                   abs_distance_x, abs_distance_y, up, down, right, left,
                   command, sent, received, last_sent, reported_steps>>

AckStep ==
    /\ pc = "wait_ack"
    /\ received' = received + 1
    /\ FinishIteration(map)
    /\ UNCHANGED <<buffer, worker>>
    /\ UNCHANGED <<map, init_x, init_y, goal_x, goal_y, yarp_mode, result_init,
                   result_goal, self_coordinate_x, self_coordinate_y,
                   coordinate_x, coordinate_y, distance_x, distance_y,
                   abs_distance_x, abs_distance_y, up, down, right, left,
                   command, sent, last_sent, reported_steps>>

(***************************************************************************)
(* process() after the loop: in channel mode send "GOAL" and wait,         *)
(* otherwise end_resume.                                                   *)
(***************************************************************************)
AfterLoop ==
    /\ pc = "after_loop"
    /\ IF yarp_mode
       THEN /\ sent' = sent + 1
            /\ last_sent' = "GOAL"
            /\ pc' = "wait_goal"
            /\ UNCHANGED reported_steps
       ELSE /\ reported_steps' = steps
            /\ pc' = "done"
            /\ UNCHANGED <<sent, last_sent>>
    /\ UNCHANGED <<buffer, worker>>
    /\ UNCHANGED <<map, init_x, init_y, goal_x, goal_y, yarp_mode, result_init,
                   result_goal, self_coordinate_x, self_coordinate_y,
                   coordinate_x, coordinate_y, distance_x, distance_y,
                   abs_distance_x, abs_distance_y, up, down, right, left,
                   command, goal, steps, outcome, received>>

AckGoal ==
    /\ pc = "wait_goal"
    /\ received' = received + 1
    /\ reported_steps' = steps
    /\ pc' = "done"
    /\ UNCHANGED <<buffer, worker>>
    /\ UNCHANGED <<map, init_x, init_y, goal_x, goal_y, yarp_mode, result_init,
                   result_goal, self_coordinate_x, self_coordinate_y,
                   coordinate_x, coordinate_y, distance_x, distance_y,
                   abs_distance_x, abs_distance_y, up, down, right, left,
                   command, goal, steps, outcome, sent, last_sent>>

Next ==
    \/ AssignTargets
    \/ StartProcess
    \/ ProcessStep
    \/ AckStep
    \/ AfterLoop
    \/ AckGoal

Spec == Init /\ [][Next]_vars

(***************************************************************************)
(* The same program under fairness, on a few of the inputs: the free       *)
(* square map, the free Rows x Cols map from its first cell to the end of   *)
(* its first row or to the first cell itself, and a start in the last cell *)
(* boxed in by two obstacles.  process() is one sequential thread, so a     *)
(* step that can be taken is taken; for AckStep and AckGoal this is the     *)
(* assumption that the actuator acknowledges every command it is sent.     *)
(***************************************************************************)
LiveInputs ==
    \/ map = MapOf(ExampleSize, ExampleSize, {})
    \/ /\ map = MapOf(Rows, Cols, {})
       /\ <<init_x, init_y>> = <<0, 0>>
       /\ <<goal_x, goal_y>> \in {<<0, Cols - 1>>, <<0, 0>>}
    \/ /\ map = MapOf(Rows, Cols, {<<Rows - 2, Cols - 1>>, <<Rows - 1, Cols - 2>>})
       /\ <<init_x, init_y>> = <<Rows - 1, Cols - 1>>
       /\ <<goal_x, goal_y>> = <<0, 0>>

InitLive == Init /\ LiveInputs

SpecLive == InitLive /\ [][Next]_vars /\ WF_vars(Next)

(***************************************************************************)
(* The grid operations on their own: analyze and move applied to any       *)
(* matrix of cell values with at most one start and one goal marker, at    *)
(* any position the matrix accepts as an index, with any command.          *)
(***************************************************************************)
GridRows == 2       \* rows of the matrices of SpecGrid
GridCols == 1       \* columns of the matrices of SpecGrid
CellValues == 0..4

InitGrid ==
    /\ map \in {g \in [1..GridRows -> [1..GridCols -> CellValues]] :
                    CountCells(g, 3) <= 1 /\ CountCells(g, 4) <= 1}
    /\ coordinate_x \in (-GridRows)..(GridRows - 1)
    /\ coordinate_y \in (-GridCols)..(GridCols - 1)
    /\ self_coordinate_x = coordinate_x
    /\ self_coordinate_y = coordinate_y
    /\ init_x = 0 /\ init_y = 0 /\ goal_x = 0 /\ goal_y = 0
    /\ yarp_mode = FALSE
    /\ result_init = FALSE /\ result_goal = FALSE
    /\ distance_x = 0 /\ distance_y = 0
    /\ abs_distance_x = 0 /\ abs_distance_y = 0
    /\ up = 1 /\ down = 1 /\ right = 1 /\ left = 1
    /\ command = "NONE"
    /\ goal = FALSE
    /\ steps = 0
    /\ outcome = "none"
    /\ sent = 0 /\ received = 0 /\ last_sent = "NONE"
    /\ reported_steps = -1
    /\ buffer = <<>> /\ worker = "idle"
    /\ pc = "grid"

\* up, down, right, left = analyze(map, coordinate_x, coordinate_y)
AnalyzeCall ==
    /\ pc = "grid"
    /\ LET st == analyze(map, coordinate_x, coordinate_y)
       IN  /\ up' = st.up /\ down' = st.down
           /\ right' = st.right /\ left' = st.left
    /\ pc' = "analyzed"
    /\ UNCHANGED <<buffer, worker>>
    /\ UNCHANGED <<map, init_x, init_y, goal_x, goal_y, yarp_mode, result_init,
                   result_goal, self_coordinate_x, self_coordinate_y,
                   coordinate_x, coordinate_y, distance_x, distance_y,
                   abs_distance_x, abs_distance_y, command, goal, steps,
                   outcome, sent, received, last_sent, reported_steps>>

\* map, coordinate_x, coordinate_y = move(map, command, coordinate_x, coordinate_y)
MoveCall ==
    /\ pc \in {"grid", "moved"}
    /\ \E cmd \in Commands :
          LET mv == move(map, cmd, coordinate_x, coordinate_y)
          IN  /\ command' = cmd
              /\ map' = mv.map
              /\ self_coordinate_x' = IF mv.located THEN mv.x ELSE self_coordinate_x
              /\ self_coordinate_y' = IF mv.located THEN mv.y ELSE self_coordinate_y
              /\ IF mv.raised
                 THEN pc' = "crashed" /\ UNCHANGED <<coordinate_x, coordinate_y>>
                 ELSE pc' = "moved" /\ coordinate_x' = mv.x /\ coordinate_y' = mv.y
    /\ UNCHANGED <<buffer, worker>>
    /\ UNCHANGED <<init_x, init_y, goal_x, goal_y, yarp_mode, result_init,
                   result_goal, distance_x, distance_y, abs_distance_x,
                   abs_distance_y, up, down, right, left, goal, steps, outcome,
                   sent, received, last_sent, reported_steps>>

NextGrid == MoveCall

SpecGrid == InitGrid /\ [][NextGrid]_vars

NextAnalyze == AnalyzeCall

SpecAnalyze == InitGrid /\ [][NextAnalyze]_vars

(***************************************************************************)
(* take_decision on its own: any four neighbour values and any distance    *)
(* vector.                                                                 *)
(***************************************************************************)
MaxDist == 2        \* largest |distance| on an axis in SpecDecision

InitDecision ==
    /\ up \in CellValues /\ down \in CellValues
    /\ right \in CellValues /\ left \in CellValues
    /\ \E cx \in 0..MaxDist, cy \in 0..MaxDist, gx \in 0..MaxDist, gy \in 0..MaxDist :
          LET dist == get_distance(cx, cy, gx, gy)
          IN  /\ coordinate_x = cx /\ coordinate_y = cy
              /\ goal_x = gx /\ goal_y = gy
              /\ distance_x = dist.distance_x
              /\ distance_y = dist.distance_y
              /\ abs_distance_x = dist.abs_distance_x
              /\ abs_distance_y = dist.abs_distance_y
    /\ map = <<<<0>>>>
    /\ self_coordinate_x = default_init_x
    /\ self_coordinate_y = default_init_y
    /\ init_x = 0 /\ init_y = 0
    /\ yarp_mode = FALSE
    /\ result_init = FALSE /\ result_goal = FALSE
    /\ command = "NONE"
    /\ goal = FALSE
    /\ steps = 0
    /\ outcome = "none"
    /\ sent = 0 /\ received = 0 /\ last_sent = "NONE"
    /\ reported_steps = -1
    /\ buffer = <<>> /\ worker = "idle"
    /\ pc = "decide"

\* the worker thread: take_decision(...) puts the command into the buffer
DecideCall ==
    /\ pc = "decide"
    /\ command' = take_decision(up, down, right, left, distance_x, distance_y,
                                abs_distance_x, abs_distance_y)
    /\ pc' = "decided"
    /\ UNCHANGED <<buffer, worker>>
    /\ UNCHANGED <<map, init_x, init_y, goal_x, goal_y, yarp_mode, result_init,
                   result_goal, self_coordinate_x, self_coordinate_y,
                   coordinate_x, coordinate_y, distance_x, distance_y,
                   abs_distance_x, abs_distance_y, up, down, right, left, goal,
                   steps, outcome, sent, received, last_sent, reported_steps>>

NextDecision == DecideCall

SpecDecision == InitDecision /\ [][NextDecision]_vars

(***************************************************************************)
(*                              PROPERTIES                                 *)
(***************************************************************************)

\* C1: move (clear_previous_location, then update_map) never changes a cell
\* that holds 3 or 4, for any matrix, any position and any command; so after
\* any sequence of moves every 3 is still a 3 and every 4 still a 4.
C1_SingularCellsKept ==
    [][\A r \in 1..NumRows(map), c \in 1..NumCols(map) :
          (map[r][c] \in {3, 4}) => (map'[r][c] = map[r][c])]_vars

\* a move UP has left a cell holding 3 and arrived on a cell holding 4
C1_Witness ==
    /\ pc = "moved"
    /\ command = "UP"
    /\ Cell(map, coordinate_x, coordinate_y) = 4
    /\ ValidCell(map, coordinate_x + 1, coordinate_y)
    /\ Cell(map, coordinate_x + 1, coordinate_y) = 3

\* the agent position is a cell of the matrix: 0 <= x < R and 0 <= y < C
PositionInGrid ==
    /\ 0 <= coordinate_x /\ coordinate_x < NumRows(map)
    /\ 0 <= coordinate_y /\ coordinate_y < NumCols(map)

\* C2: for an agent position inside the R x C grid, analyze reports the
\* obstacle value for every neighbour whose index is outside [0,R) x [0,C):
\* row -1, column -1, row R and column C alike.
C2_OutsideIsObstacle ==
    (pc = "analyzed" /\ PositionInGrid) =>
        /\ (coordinate_x - 1 < 0) => (up = 1)
        /\ (coordinate_x + 1 >= NumRows(map)) => (down = 1)
        /\ (coordinate_y + 1 >= NumCols(map)) => (right = 1)
        /\ (coordinate_y - 1 < 0) => (left = 1)

\* C3: once the loop has reached GOAL_REACHED or STEP_LIMIT_EXCEEDED the
\* step counter (the number of iterations executed) is at most 101.
C3_TerminalWithin101 ==
    (outcome # "none") => (steps <= 101)

\* C4: while process() runs from a start accepted by check_location, the
\* agent position satisfies 0 <= x < R and 0 <= y < C.
C4_PositionInBounds ==
    (pc \in {"loop", "wait_ack"} /\ result_init) => PositionInGrid

(***************************************************************************)
(* The priority rule of the decision engine, stated on the inputs of       *)
(* take_decision: dominant axis, primary direction, and the directions     *)
(* derived from it.                                                        *)
(***************************************************************************)
Open(v) == v \in {0, 4}

NeighbourValue(dir) ==
    CASE dir = "UP" -> up
      [] dir = "DOWN" -> down
      [] dir = "LEFT" -> left
      [] dir = "RIGHT" -> right

Opposite(dir) ==
    CASE dir = "UP" -> "DOWN"
      [] dir = "DOWN" -> "UP"
      [] dir = "LEFT" -> "RIGHT"
      [] dir = "RIGHT" -> "LEFT"

VerticalDominant == abs_distance_x >= abs_distance_y

\* the distance on the dominant axis and on the other axis
DominantDistance == IF VerticalDominant THEN distance_x ELSE distance_y
OtherDistance == IF VerticalDominant THEN distance_y ELSE distance_x

PrimaryDirection ==
    IF VerticalDominant
    THEN IF distance_x < 0 THEN "UP" ELSE "DOWN"
    ELSE IF distance_y < 0 THEN "LEFT" ELSE "RIGHT"

\* the direction on the other axis that reduces that axis's distance
SecondaryDirection ==
    IF VerticalDominant
    THEN IF distance_y < 0 THEN "LEFT" ELSE "RIGHT"
    ELSE IF distance_x < 0 THEN "UP" ELSE "DOWN"

TertiaryDirection == Opposite(SecondaryDirection)
QuaternaryDirection == Opposite(PrimaryDirection)

Decided == pc = "decided"

\* C5: unless both distances are 0, the dominant axis is vertical when
\* |dx| >= |dy| (ties included), the primary direction reduces the distance
\* on it, and the primary direction is emitted whenever its neighbour holds
\* 0 or 4, whatever the other three neighbours hold.
C5_PrimaryEmitted ==
    (/\ Decided
     /\ ~(abs_distance_x = 0 /\ abs_distance_y = 0)
     /\ Open(NeighbourValue(PrimaryDirection)))
    => /\ command = PrimaryDirection
       /\ DominantDistance # 0
       /\ (DominantDistance < 0) <=> (command \in {"UP", "LEFT"})
       /\ (abs_distance_x >= abs_distance_y) <=> (command \in {"UP", "DOWN"})

\* a tie |dx| = |dy|, goal above and to the right, both UP and RIGHT open:
\* UP is emitted
C5_Witness ==
    /\ Decided
    /\ abs_distance_x = abs_distance_y /\ distance_x < 0 /\ distance_y > 0
    /\ up = 4 /\ right = 0 /\ down = 0 /\ left = 0
    /\ command = "UP"

\* C6: in each of the four branches, when the primary direction is not open
\* and the secondary direction (the one that reduces the other axis's
\* distance) is open, exactly the secondary direction is emitted.
C6_SecondaryEmitted ==
    (/\ Decided
     /\ ~(abs_distance_x = 0 /\ abs_distance_y = 0)
     /\ OtherDistance # 0
     /\ ~Open(NeighbourValue(PrimaryDirection))
     /\ Open(NeighbourValue(SecondaryDirection)))
    => command = SecondaryDirection

\* vertical dominant, goal below and to the left, DOWN blocked, LEFT and
\* RIGHT both open: LEFT is emitted
C6_Witness ==
    /\ Decided
    /\ abs_distance_x >= abs_distance_y /\ distance_x > 0 /\ distance_y < 0
    /\ down = 1 /\ left = 0 /\ right = 0 /\ up = 0
    /\ command = "LEFT"

\* C7: in each of the four branches and for both signs of the other-axis
\* distance, when neither the primary nor the secondary direction is open
\* and the tertiary direction (opposite to the secondary) is open, exactly
\* the tertiary direction is emitted.
C7_TertiaryEmitted ==
    (/\ Decided
     /\ ~(abs_distance_x = 0 /\ abs_distance_y = 0)
     /\ OtherDistance # 0
     /\ ~Open(NeighbourValue(PrimaryDirection))
     /\ ~Open(NeighbourValue(SecondaryDirection))
     /\ Open(NeighbourValue(TertiaryDirection)))
    => command = TertiaryDirection

\* horizontal dominant, goal to the left and above, LEFT and UP blocked,
\* DOWN and RIGHT both open: DOWN is emitted
C7_Witness ==
    /\ Decided
    /\ abs_distance_x < abs_distance_y /\ distance_y < 0 /\ distance_x < 0
    /\ left = 2 /\ up = 1 /\ down = 0 /\ right = 0
    /\ command = "DOWN"

\* C8: in all eight sub-branches, when the primary, secondary and tertiary
\* directions are not open and the quaternary direction (opposite the
\* primary) is open, exactly the quaternary direction is emitted.
C8_QuaternaryEmitted ==
    (/\ Decided
     /\ ~(abs_distance_x = 0 /\ abs_distance_y = 0)
     /\ OtherDistance # 0
     /\ ~Open(NeighbourValue(PrimaryDirection))
     /\ ~Open(NeighbourValue(SecondaryDirection))
     /\ ~Open(NeighbourValue(TertiaryDirection))
     /\ Open(NeighbourValue(QuaternaryDirection)))
    => command = QuaternaryDirection

\* C9: NONE is emitted if and only if none of the four neighbours holds 0
\* or 4.
C9_NoneIffBoxedIn ==
    Decided =>
        ((command = "NONE") <=>
            (~Open(up) /\ ~Open(down) /\ ~Open(right) /\ ~Open(left)))

\* C10: after assign_targets and for the whole of process(), exactly one
\* cell holds 3, exactly one holds 4, and every other cell holds 0, 1 or 2.
C10_OneStartOneGoal ==
    (pc \in {"simulate", "loop", "wait_ack", "after_loop", "wait_goal", "done"})
    => /\ CountCells(map, 3) = 1
       /\ CountCells(map, 4) = 1
       /\ \A r \in 1..NumRows(map), c \in 1..NumCols(map) : map[r][c] \in 0..4

(***************************************************************************)
(* C11: when the requested start is rejected, 3 is placed at the default   *)
(* start (2,2) and the loop starts with the agent at (2,2); when the       *)
(* requested goal is rejected, 4 is placed at the default goal (7,2) and   *)
(* the goal of the loop is (7,2): as the loop starts, the agent stands on  *)
(* the cell holding 3 and the goal of the loop is the cell holding 4.      *)
(***************************************************************************)
LoopStarts == (pc = "loop") /\ (steps = 0)

C11_DefaultsUsedByLoop ==
    LoopStarts =>
        /\ (~result_init) =>
              /\ coordinate_x = default_init_x
              /\ coordinate_y = default_init_y
        /\ (~result_goal) =>
              /\ goal_x = default_goal_x
              /\ goal_y = default_goal_y
        /\ ValidCell(map, coordinate_x, coordinate_y)
        /\ ValidCell(map, goal_x, goal_y)
        /\ Cell(map, coordinate_x, coordinate_y) = 3
        /\ Cell(map, goal_x, goal_y) = 4

(***************************************************************************)
(* check_location on its own: applied to any matrix of cell values with    *)
(* at most one start and one goal marker and to any coordinates from one   *)
(* step before the lowest index the matrix accepts to one step past its    *)
(* last row / column.                                                      *)
(***************************************************************************)
InitCheck ==
    /\ map \in {g \in [1..GridRows -> [1..GridCols -> CellValues]] :
                    CountCells(g, 3) <= 1 /\ CountCells(g, 4) <= 1}
    /\ init_x \in (-GridRows - 1)..GridRows
    /\ init_y \in (-GridCols - 1)..GridCols
    /\ goal_x = 0 /\ goal_y = 0
    /\ coordinate_x = 0 /\ coordinate_y = 0
    /\ self_coordinate_x = default_init_x
    /\ self_coordinate_y = default_init_y
    /\ yarp_mode = FALSE
    /\ result_init = FALSE /\ result_goal = FALSE
    /\ distance_x = 0 /\ distance_y = 0
    /\ abs_distance_x = 0 /\ abs_distance_y = 0
    /\ up = 1 /\ down = 1 /\ right = 1 /\ left = 1
    /\ command = "NONE"
    /\ goal = FALSE
    /\ steps = 0
    /\ outcome = "none"
    /\ sent = 0 /\ received = 0 /\ last_sent = "NONE"
    /\ reported_steps = -1
    /\ buffer = <<>> /\ worker = "idle"
    /\ pc = "check"

\* result_init = self.check_location(map, init_x, init_y)
CheckCall ==
    /\ pc = "check"
    /\ result_init' = check_location(map, init_x, init_y)
    /\ pc' = "checked"
    /\ UNCHANGED <<buffer, worker>>
    /\ UNCHANGED <<map, init_x, init_y, goal_x, goal_y, yarp_mode, result_goal,
                   self_coordinate_x, self_coordinate_y, coordinate_x,
                   coordinate_y, distance_x, distance_y, abs_distance_x,
                   abs_distance_y, up, down, right, left, command, goal,
                   steps, outcome, sent, received, last_sent, reported_steps>>

NextCheck == CheckCall

SpecCheck == InitCheck /\ [][NextCheck]_vars

(***************************************************************************)
(* C12: check_location returns True only for coordinates inside the grid   *)
(* (0 <= x < R and 0 <= y < C) whose cell holds 0; for every coordinate    *)
(* outside the grid, negative indices included, and for every cell holding *)
(* 1, 2, 3 or 4 it returns False.                                          *)
(***************************************************************************)
C12_TrueOnlyInsideAndFree ==
    (pc = "checked" /\ result_init) =>
        /\ 0 <= init_x /\ init_x < NumRows(map)
        /\ 0 <= init_y /\ init_y < NumCols(map)
        /\ map[init_x + 1][init_y + 1] = 0

(***************************************************************************)
(* C13: process() reports goal-not-achieved only when the agent's position *)
(* differs from the goal: a run whose last move before the limit check     *)
(* lands on the goal is not reported as goal-not-achieved.                 *)
(***************************************************************************)
AtGoal == (coordinate_x = goal_x) /\ (coordinate_y = goal_y)

C13_NotAchievedOnlyAwayFromGoal ==
    (outcome = "goal_not_achieved") => ~AtGoal

(***************************************************************************)
(* C14: with the channel on, every step that sends a command blocks until  *)
(* one acknowledgement is received, before steps is incremented and before *)
(* the next decision or grid mutation: sends and receives alternate        *)
(* strictly, and the only transition out of the waiting state is the       *)
(* reception of the acknowledgement.                                       *)
(***************************************************************************)
Waiting == pc \in {"wait_ack", "wait_goal"}

ChannelBalanced ==
    /\ sent - received \in {0, 1}
    /\ Waiting <=> (sent = received + 1)
    /\ (~yarp_mode) => (sent = 0 /\ received = 0)

EmitsStepCommand ==
    /\ pc = "loop"
    /\ pc' # "crashed"
    /\ ~AtGoal

C14_SendThenBlockUntilAck ==
    [][ /\ ChannelBalanced
        /\ ChannelBalanced'
        /\ (yarp_mode /\ EmitsStepCommand) =>
              /\ sent' = sent + 1
              /\ last_sent' = command'
              /\ pc' = "wait_ack"
        /\ (sent' # sent) =>
              /\ sent' = sent + 1
              /\ received' = received
              /\ steps' = steps
              /\ Waiting'
        /\ (pc = "wait_ack") =>
              /\ received' = received + 1
              /\ steps' = steps + 1
              /\ UNCHANGED <<map, coordinate_x, coordinate_y, command, sent,
                             last_sent>>
        /\ (pc = "wait_goal") =>
              /\ received' = received + 1
              /\ UNCHANGED <<map, coordinate_x, coordinate_y, command, sent,
                             last_sent, steps>>
        /\ (received' # received) => Waiting
      ]_vars

C14_Witness ==
    /\ yarp_mode
    /\ pc = "wait_ack"
    /\ sent = 2
    /\ received = 1
    /\ command # "NONE"

(***************************************************************************)
(* C15: "GOAL" is sent only in channel mode and only after the goal has    *)
(* been reached: once, after the last step command, in runs that end with  *)
(* goal achieved; never in runs that end at the step limit nor when the    *)
(* channel is off.                                                         *)
(***************************************************************************)
C15_GoalSentOnlyWhenReached ==
    (last_sent = "GOAL") =>
        /\ yarp_mode
        /\ outcome = "goal_achieved"
        /\ pc \in {"wait_goal", "done"}

(***************************************************************************)
(* C16: when take_decision emits NONE, that step leaves the position and   *)
(* the grid unchanged, every later step emits NONE again and is counted,   *)
(* and the run ends at the step limit, never with goal achieved.           *)
(***************************************************************************)
DecisionsMade ==
    CASE pc \in {"loop", "join", "get"} -> steps
      [] pc = "wait_ack" -> steps + 1
      [] pc \in {"after_loop", "wait_goal", "done"} ->
            IF outcome = "goal_achieved" THEN steps - 1 ELSE steps
      [] OTHER -> 0

LastDecisionNone == (DecisionsMade >= 1) /\ (command = "NONE")

C16_NoneIsFinal ==
    [][ /\ (EmitsStepCommand /\ command' = "NONE") =>
              /\ map' = map
              /\ coordinate_x' = coordinate_x
              /\ coordinate_y' = coordinate_y
              /\ DecisionsMade' = DecisionsMade + 1
        /\ (EmitsStepCommand /\ LastDecisionNone) => (command' = "NONE")
        /\ LastDecisionNone' => (outcome' # "goal_achieved")
        /\ (LastDecisionNone' /\ pc' = "done") => (outcome' = "goal_not_achieved")
      ]_vars

(***************************************************************************)
(* C17: on a grid without obstacles, from an accepted start inside the     *)
(* grid to a distinct accepted goal inside the grid at Manhattan distance  *)
(* d <= 100, the loop emits exactly d commands, each the primary direction *)
(* of its step and each reducing the Manhattan distance by one, and then   *)
(* reaches the goal at step index d; on the free square map from (0,0) to  *)
(* the end of the first row the commands are all RIGHT.                    *)
(***************************************************************************)
InsideGrid(x, y) ==
    /\ 0 <= x /\ x < NumRows(map)
    /\ 0 <= y /\ y < NumCols(map)

RunDistance == Abs(goal_x - init_x) + Abs(goal_y - init_y)
Remaining == Abs(goal_x - coordinate_x) + Abs(goal_y - coordinate_y)

FreeRun ==
    /\ CountCells(map, 1) = 0
    /\ result_init /\ result_goal
    /\ InsideGrid(init_x, init_y)
    /\ InsideGrid(goal_x, goal_y)
    /\ <<init_x, init_y>> # <<goal_x, goal_y>>
    /\ RunDistance <= StepLimit

C17_FreeRunIsDirect ==
    FreeRun =>
        /\ pc # "crashed"
        /\ outcome # "goal_not_achieved"
        /\ (pc \in {"loop", "wait_ack"} /\ DecisionsMade >= 1) =>
              /\ command = PrimaryDirection
              /\ Remaining = abs_distance_x + abs_distance_y - 1
        /\ (pc \in {"loop", "wait_ack"}) => (Remaining = RunDistance - DecisionsMade)
        /\ (outcome = "goal_achieved") =>
              /\ AtGoal
              /\ DecisionsMade = RunDistance
              /\ steps = RunDistance + 1
        /\ (NumRows(map) = ExampleSize /\ NumCols(map) = ExampleSize
              /\ DecisionsMade >= 1) => (command = "RIGHT")

C17_Witness ==
    /\ FreeRun
    /\ NumRows(map) = ExampleSize /\ NumCols(map) = ExampleSize
    /\ <<init_x, init_y>> = <<0, 0>>
    /\ <<goal_x, goal_y>> = <<0, ExampleSize - 1>>
    /\ outcome = "goal_achieved"
    /\ DecisionsMade = ExampleSize - 1
    /\ command = "RIGHT"
    /\ pc = "done"

(***************************************************************************)
(* C18: an iteration that begins with the agent on the goal enters goal    *)
(* achieved in that iteration, without a decision, a move, a change of the *)
(* grid or a step command sent; when the start equals the goal this is the *)
(* iteration with step index 0 and no step command is ever emitted.        *)
(***************************************************************************)
C18_AtGoalEndsAtOnce ==
    [][ /\ (pc = "loop" /\ AtGoal) =>
              /\ outcome' = "goal_achieved"
              /\ goal'
              /\ pc' = "after_loop"
              /\ DecisionsMade' = DecisionsMade
              /\ UNCHANGED <<map, coordinate_x, coordinate_y, command, sent,
                             last_sent>>
        /\ (<<init_x, init_y>> = <<goal_x, goal_y>> /\ pc = "loop") =>
              /\ steps = 0
              /\ AtGoal
        /\ (<<init_x, init_y>> = <<goal_x, goal_y>>) =>
              /\ DecisionsMade' = 0
              /\ outcome' # "goal_not_achieved"
              /\ sent' \in {0, 1}
              /\ (sent' = 1) => (last_sent' = "GOAL")
      ]_vars

C18_Witness ==
    /\ <<init_x, init_y>> = <<goal_x, goal_y>>
    /\ yarp_mode
    /\ pc = "done"
    /\ outcome = "goal_achieved"
    /\ steps = 1
    /\ sent = 1

(***************************************************************************)
(* C19: for every command, move returns the position shifted by the        *)
(* command (UP: x-1, DOWN: x+1, RIGHT: y+1, LEFT: y-1, NONE: unchanged),   *)
(* and afterwards the departed cell and the arrived cell hold 2 unless     *)
(* they held 3 or 4, in which case they are unchanged.                     *)
(***************************************************************************)
ShiftedX(cmd, x) ==
    CASE cmd = "UP" -> x - 1
      [] cmd = "DOWN" -> x + 1
      [] OTHER -> x

ShiftedY(cmd, y) ==
    CASE cmd = "RIGHT" -> y + 1
      [] cmd = "LEFT" -> y - 1
      [] OTHER -> y

Marked(v) == IF v \in {3, 4} THEN v ELSE 2

\* the step returned the shifted position and marked both cells
MoveReturnedShifted ==
    LET nx == ShiftedX(command', coordinate_x)
        ny == ShiftedY(command', coordinate_y)
    IN  /\ pc' = "moved"
        /\ coordinate_x' = nx
        /\ coordinate_y' = ny
        /\ Cell(map', coordinate_x, coordinate_y) =
              Marked(Cell(map, coordinate_x, coordinate_y))
        /\ IF Cell(map, nx, ny) \in {3, 4}
           THEN Cell(map', nx, ny) = Cell(map, nx, ny)
           ELSE Cell(map', nx, ny) = 2

TripRows == GridRows
TripCols == GridCols + 1
MaxFilled == 2      \* most cells not holding 0 in the matrices of SpecTrip

RoundTrips ==
    {<<"UP", "DOWN">>, <<"DOWN", "UP">>, <<"LEFT", "RIGHT">>, <<"RIGHT", "LEFT">>}

InitTrip ==
    /\ map \in {g \in [1..TripRows -> [1..TripCols -> CellValues]] :
                    /\ CountCells(g, 3) <= 1
                    /\ CountCells(g, 4) <= 1
                    /\ TripRows * TripCols - CountCells(g, 0) <= MaxFilled}
    /\ coordinate_x \in 0..(TripRows - 1)
    /\ coordinate_y \in 0..(TripCols - 1)
    /\ self_coordinate_x = coordinate_x
    /\ self_coordinate_y = coordinate_y
    /\ init_x = 0 /\ init_y = 0 /\ goal_x = 0 /\ goal_y = 0
    /\ yarp_mode = FALSE
    /\ result_init = FALSE /\ result_goal = FALSE
    /\ distance_x = 0 /\ distance_y = 0
    /\ abs_distance_x = 0 /\ abs_distance_y = 0
    /\ up = 1 /\ down = 1 /\ right = 1 /\ left = 1
    /\ command = "NONE"
    /\ goal = FALSE
    /\ steps = 0
    /\ outcome = "none"
    /\ sent = 0 /\ received = 0 /\ last_sent = "NONE"
    /\ reported_steps = -1
    /\ buffer = <<>> /\ worker = "idle"
    /\ pc = "trip"

\* map, x, y = move(map, first, x, y); map, x, y = move(map, second, x, y)
\* (command records the first of the two)
RoundTripCall ==
    /\ pc = "trip"
    /\ \E t \in RoundTrips :
          LET mv1 == move(map, t[1], coordinate_x, coordinate_y)
              mv2 == move(mv1.map, t[2], mv1.x, mv1.y)
              mv  == IF mv1.raised THEN mv1 ELSE mv2
          IN  /\ command' = t[1]
              /\ map' = mv.map
              /\ self_coordinate_x' = IF mv.located THEN mv.x ELSE self_coordinate_x
              /\ self_coordinate_y' = IF mv.located THEN mv.y ELSE self_coordinate_y
              /\ IF mv1.raised
                 THEN pc' = "crashed" /\ UNCHANGED <<coordinate_x, coordinate_y>>
                 ELSE IF mv2.raised
                 THEN pc' = "crashed" /\ coordinate_x' = mv1.x /\ coordinate_y' = mv1.y
                 ELSE pc' = "returned" /\ coordinate_x' = mv2.x /\ coordinate_y' = mv2.y
    /\ UNCHANGED <<buffer, worker>>
    /\ UNCHANGED <<init_x, init_y, goal_x, goal_y, yarp_mode, result_init,
                   result_goal, distance_x, distance_y, abs_distance_x,
                   abs_distance_y, up, down, right, left, goal, steps, outcome,
                   sent, received, last_sent, reported_steps>>

NextTrip == RoundTripCall

SpecTrip == InitTrip /\ [][NextTrip]_vars

(***************************************************************************)
(* C20: UP then DOWN from any cell (x,y) with x >= 1 returns to (x,y), and *)
(* afterwards the starting cell and the intermediate cell hold 2 unless    *)
(* they held 3 or 4; likewise DOWN then UP from a cell above the last row, *)
(* LEFT then RIGHT from a cell with y >= 1 and RIGHT then LEFT from a cell *)
(* before the last column.                                                 *)
(***************************************************************************)
TripInsideGrid(first) ==
    CASE first = "UP" -> coordinate_x >= 1
      [] first = "DOWN" -> coordinate_x <= NumRows(map) - 2
      [] first = "LEFT" -> coordinate_y >= 1
      [] first = "RIGHT" -> coordinate_y <= NumCols(map) - 2

C20_RoundTripReturns ==
    [][(pc = "trip" /\ TripInsideGrid(command')) =>
          LET ix == ShiftedX(command', coordinate_x)
              iy == ShiftedY(command', coordinate_y)
          IN  /\ pc' = "returned"
              /\ coordinate_x' = coordinate_x
              /\ coordinate_y' = coordinate_y
              /\ map'[coordinate_x + 1][coordinate_y + 1] =
                    Marked(map[coordinate_x + 1][coordinate_y + 1])
              /\ map'[ix + 1][iy + 1] = Marked(map[ix + 1][iy + 1])
      ]_vars

\* LEFT then RIGHT has returned to a cell that was free, across the cell
\* holding 3
C20_Witness ==
    /\ pc = "returned"
    /\ command = "LEFT"
    /\ coordinate_y >= 1
    /\ map[coordinate_x + 1][coordinate_y + 1] = 2
    /\ map[coordinate_x + 1][coordinate_y] = 3

(***************************************************************************)
(* C21: whichever terminal state the loop reaches, exactly one terminal    *)
(* event (goal achieved or goal not achieved) is emitted, no decision or   *)
(* move happens afterwards, and the end report with the total step count   *)
(* is eventually produced; with the channel on this holds provided every   *)
(* command sent is acknowledged.                                           *)
(***************************************************************************)
Terminal == outcome # "none"

Reported == (pc = "done") /\ (reported_steps = steps)

C21_TerminalThenReport ==
    /\ [](Terminal <=> (pc \in {"after_loop", "wait_goal", "done"}))
    /\ []((pc = "done") => Reported)
    /\ [][Terminal =>
            /\ outcome' = outcome
            /\ DecisionsMade' = DecisionsMade
            /\ UNCHANGED <<map, coordinate_x, coordinate_y, command, steps>>
         ]_vars
    /\ (Terminal ~> Reported)

\* a run that stopped at the step limit with the channel on has produced
\* its end report
C21_Witness ==
    /\ Reported
    /\ outcome = "goal_not_achieved"
    /\ yarp_mode
    /\ received = sent

(***************************************************************************)
(* C22: at every step of the loop the distance vector given to             *)
(* take_decision is computed from the agent position of that step:         *)
(* dx = goal_x - x, dy = goal_y - y, with the absolute values |dx| and     *)
(* |dy|; get_distance changes nothing and returns the same result when     *)
(* called again on the same inputs.                                        *)
(***************************************************************************)
C22_DistanceFromCurrentPosition ==
    [][(pc = "loop") =>
          /\ distance_x' = goal_x - coordinate_x
          /\ distance_y' = goal_y - coordinate_y
          /\ abs_distance_x' = Abs(goal_x - coordinate_x)
          /\ abs_distance_y' = Abs(goal_y - coordinate_y)
          /\ UNCHANGED <<goal_x, goal_y>>
          /\ get_distance(coordinate_x, coordinate_y, goal_x, goal_y) =
                [distance_x |-> distance_x', distance_y |-> distance_y',
                 abs_distance_x |-> abs_distance_x',
                 abs_distance_y |-> abs_distance_y']
          /\ EmitsStepCommand =>
                command' = take_decision(up', down', right', left',
                                         goal_x - coordinate_x,
                                         goal_y - coordinate_y,
                                         Abs(goal_x - coordinate_x),
                                         Abs(goal_y - coordinate_y))
      ]_vars

\* a later step of a run has measured a goal above and to the right
C22_Witness ==
    /\ pc = "loop"
    /\ steps >= 2
    /\ distance_x < 0
    /\ distance_y > 0
    /\ command # "NONE"

(***************************************************************************)
(* C23: every direction emitted by take_decision points at a neighbour     *)
(* whose value in the grid at decision time is 0 or 4: the agent never      *)
(* moves into a cell holding 1, 2 or 3, nor in a direction whose neighbour *)
(* lies outside the grid.                                                  *)
(***************************************************************************)
C23_EmittedDirectionIsOpenAndInside ==
    [][(EmitsStepCommand /\ command' # "NONE") =>
          LET nx == ShiftedX(command', coordinate_x)
              ny == ShiftedY(command', coordinate_y)
          IN  /\ InsideGrid(nx, ny)
              /\ map[nx + 1][ny + 1] \in {0, 4}
      ]_vars

(***************************************************************************)
(* C24: during a run from a valid start and goal no move enters a cell the *)
(* agent occupied at an earlier step, so the agent never oscillates        *)
(* between two cells.  In particular no move leads back to the position    *)
(* the previous move left: a move is never followed by the opposite move.  *)
(***************************************************************************)
ValidRun ==
    /\ result_init /\ result_goal
    /\ InsideGrid(init_x, init_y)
    /\ InsideGrid(goal_x, goal_y)

C24_NeverBackToPreviousCell ==
    [][(ValidRun /\ EmitsStepCommand /\ DecisionsMade >= 1 /\ command # "NONE") =>
          command' # Opposite(command)
      ]_vars

(***************************************************************************)
(* process() with the decision thread made explicit.  An iteration that    *)
(* is not on the goal builds a queue.Queue, starts a thread running        *)
(* take_decision, waits for it in thread.join(), takes the command with    *)
(* buffer.get() (which blocks on an empty queue) and moves.  The thread    *)
(* computes the command from the arguments it was started with and puts it *)
(* into the queue.                                                         *)
(***************************************************************************)
IterationBegin ==
    /\ pc = "loop"
    /\ LET dist == get_distance(coordinate_x, coordinate_y, goal_x, goal_y)
           st   == analyze(map, coordinate_x, coordinate_y)
       IN  /\ distance_x' = dist.distance_x
           /\ distance_y' = dist.distance_y
           /\ abs_distance_x' = dist.abs_distance_x
           /\ abs_distance_y' = dist.abs_distance_y
           /\ up' = st.up /\ down' = st.down
           /\ right' = st.right /\ left' = st.left
           /\ IF (dist.abs_distance_x = 0) /\ (dist.abs_distance_y = 0)
              THEN /\ GoalReached
                   /\ UNCHANGED <<buffer, worker>>
              ELSE /\ buffer' = <<>>
                   /\ worker' = "running"
                   /\ pc' = "join"
                   /\ UNCHANGED <<map, self_coordinate_x, self_coordinate_y,
                                  coordinate_x, coordinate_y, command, goal,
                                  steps, outcome, sent, last_sent>>
    /\ UNCHANGED <<init_x, init_y, goal_x, goal_y, yarp_mode, result_init,
                   result_goal, received, reported_steps>>

\* the thread: take_decision(up, down, right, left, distances, buffer)
WorkerRun ==
    /\ worker = "running"
    /\ buffer' = Append(buffer, take_decision(up, down, right, left,
                                              distance_x, distance_y,
                                              abs_distance_x, abs_distance_y))
    /\ worker' = "finished"
    /\ UNCHANGED <<map, init_x, init_y, goal_x, goal_y, yarp_mode, result_init,
                   result_goal, self_coordinate_x, self_coordinate_y,
                   coordinate_x, coordinate_y, distance_x, distance_y,
                   abs_distance_x, abs_distance_y, up, down, right, left,
                   command, goal, steps, outcome, sent, received, last_sent,
                   reported_steps, pc>>

ThreadJoin_no_wait ==
    /\ pc = "join"
    /\ pc' = "get"
    /\ UNCHANGED <<map, init_x, init_y, goal_x, goal_y, yarp_mode, result_init,
                   result_goal, self_coordinate_x, self_coordinate_y,
                   coordinate_x, coordinate_y, distance_x, distance_y,
                   abs_distance_x, abs_distance_y, up, down, right, left,
                   command, goal, steps, outcome, sent, received, last_sent,
                   reported_steps, buffer, worker>>

\* thread.join() returns once the thread has ended
ThreadJoin ==
    /\ pc = "join"
    /\ worker = "finished"
    /\ worker' = "idle"
    /\ pc' = "get"
    /\ UNCHANGED <<map, init_x, init_y, goal_x, goal_y, yarp_mode, result_init,
                   result_goal, self_coordinate_x, self_coordinate_y,
                   coordinate_x, coordinate_y, distance_x, distance_y,
                   abs_distance_x, abs_distance_y, up, down, right, left,
                   command, goal, steps, outcome, sent, received, last_sent,
                   reported_steps, buffer>>

\* command = buffer.get(), then move and the rest of the iteration
GetAndMove ==
    /\ pc = "get"
    /\ Len(buffer) > 0
    /\ LET cmd == Head(buffer)
           mv  == move(map, cmd, coordinate_x, coordinate_y)
       IN  /\ buffer' = Tail(buffer)
           /\ command' = cmd
           /\ map' = mv.map
           /\ self_coordinate_x' = IF mv.located THEN mv.x ELSE self_coordinate_x
           /\ self_coordinate_y' = IF mv.located THEN mv.y ELSE self_coordinate_y
           /\ IF mv.raised
              THEN /\ pc' = "crashed"
                   /\ UNCHANGED <<coordinate_x, coordinate_y, goal, steps,
                                  outcome, sent, last_sent>>
              ELSE /\ coordinate_x' = mv.x
                   /\ coordinate_y' = mv.y
                   /\ IF yarp_mode
                      THEN /\ sent' = sent + 1
                           /\ last_sent' = cmd
                           /\ pc' = "wait_ack"
                           /\ UNCHANGED <<goal, steps, outcome>>
                      ELSE /\ FinishIteration(mv.map)
                           /\ UNCHANGED <<sent, last_sent>>
    /\ UNCHANGED <<init_x, init_y, goal_x, goal_y, yarp_mode, result_init,
                   result_goal, distance_x, distance_y, abs_distance_x,
                   abs_distance_y, up, down, right, left, received,
                   reported_steps, worker>>

NextWorker ==
    \/ AssignTargets
    \/ StartProcess
    \/ IterationBegin
    \/ WorkerRun
    \/ ThreadJoin
    \/ GetAndMove
    \/ AckStep
    \/ AfterLoop
    \/ AckGoal

\* the inputs of SpecLive, and the runs from the first cell to the last
\* cell of the Rows x Cols map with any of its obstacle sets
WorkerInputs ==
    \/ LiveInputs
    \/ /\ NumRows(map) = Rows /\ NumCols(map) = Cols
       /\ <<init_x, init_y>> = <<0, 0>>
       /\ <<goal_x, goal_y>> = <<Rows - 1, Cols - 1>>

InitWorker == Init /\ WorkerInputs

SpecWorker == InitWorker /\ [][NextWorker]_vars

(***************************************************************************)
(* C25: in each non-terminal iteration exactly one decision worker is      *)
(* started, and it is joined before the loop reads the buffer: when        *)
(* buffer.get() is called the buffer holds exactly one command, no worker  *)
(* runs concurrently with move() or with another worker, and one step's    *)
(* decision and grid mutation complete before the next step begins.        *)
(***************************************************************************)
WorkerInStep ==
    /\ worker \in {"idle", "running", "finished"}
    /\ (worker = "running") => (pc = "join" /\ buffer = <<>>)
    /\ (worker = "finished") => (pc = "join" /\ Len(buffer) = 1)
    /\ (pc = "get") => (worker = "idle" /\ Len(buffer) = 1)
    /\ (pc \notin {"join", "get"}) => (worker = "idle" /\ buffer = <<>>)

C25_OneWorkerJoinedBeforeGet ==
    [][ /\ WorkerInStep
        /\ WorkerInStep'
        /\ (pc = "loop" /\ ~AtGoal) => (worker' = "running" /\ pc' = "join")
        /\ (worker' = "running") => (pc = "loop" /\ worker = "idle")
        /\ (pc = "get") =>
              /\ command' = Head(buffer)
              /\ buffer' = <<>>
              /\ pc' \in {"loop", "wait_ack", "after_loop", "crashed"}
        /\ (<<map, coordinate_x, coordinate_y, command>>' #
               <<map, coordinate_x, coordinate_y, command>>) =>
              (pc \in {"get", "simulate", "assign"} /\ worker = "idle" /\ worker' = "idle")
      ]_vars

\* the loop is about to take a direction from the buffer in a later step
C25_Witness ==
    /\ pc = "get"
    /\ steps >= 1
    /\ Len(buffer) = 1
    /\ buffer[1] # "NONE"
    /\ worker = "idle"

(***************************************************************************)
(* C26: during a run from a valid start, analyze, get_distance and         *)
(* take_decision leave the grid and the agent position unchanged; each     *)
(* move changes at most the departed and the arrived cell, and only from   *)
(* 0 to 2, so every cell holding 1 keeps its value for the whole run and   *)
(* the number of cells holding 0 never increases.                          *)
(***************************************************************************)
ValidStart == result_init /\ InsideGrid(init_x, init_y)

\* the cells of the matrix m addressed by the position (x, y)
CellAt(m, x, y) == <<(x % NumRows(m)) + 1, (y % NumCols(m)) + 1>>

C26_OnlyMoveChangesGrid ==
    [][ValidStart =>
          /\ (pc \in {"loop", "join"}) =>
                UNCHANGED <<map, coordinate_x, coordinate_y>>
          /\ (pc = "get") =>
                /\ coordinate_x' \in {coordinate_x, ShiftedX(command', coordinate_x)}
                /\ coordinate_y' \in {coordinate_y, ShiftedY(command', coordinate_y)}
          /\ (pc = "get" /\ pc' # "crashed") =>
                \A r \in 1..NumRows(map), c \in 1..NumCols(map) :
                   (map'[r][c] # map[r][c]) =>
                      /\ <<r, c>> \in {CellAt(map, coordinate_x, coordinate_y),
                                       CellAt(map, coordinate_x', coordinate_y')}
                      /\ map[r][c] = 0
                      /\ map'[r][c] = 2
          /\ \A r \in 1..NumRows(map), c \in 1..NumCols(map) :
                (map[r][c] = 1) => (map'[r][c] = 1)
          /\ CountCells(map', 0) <= CountCells(map, 0)
      ]_vars

\* a move has marked the free cell it arrived on
C26_Witness ==
    /\ ValidStart
    /\ pc \in {"loop", "wait_ack"}
    /\ DecisionsMade >= 2
    /\ command # "NONE"
    /\ ValidCell(map, coordinate_x, coordinate_y)
    /\ Cell(map, coordinate_x, coordinate_y) = 2
    /\ CountCells(map, 1) >= 1

(***************************************************************************)
(* C27: when the distance on the non-dominant axis is exactly zero,        *)
(* take_decision treats it as positive: with the vertical axis dominant    *)
(* and dy = 0 the secondary direction is RIGHT and the tertiary LEFT, with *)
(* the horizontal axis dominant and dx = 0 the secondary direction is DOWN *)
(* and the tertiary UP.                                                    *)
(***************************************************************************)
ZeroSecondary == IF abs_distance_x >= abs_distance_y THEN "RIGHT" ELSE "DOWN"
ZeroTertiary == IF abs_distance_x >= abs_distance_y THEN "LEFT" ELSE "UP"

C27_ZeroTreatedAsPositive ==
    (/\ Decided
     /\ (IF abs_distance_x >= abs_distance_y THEN distance_y ELSE distance_x) = 0
     /\ ~Open(NeighbourValue(PrimaryDirection)))
    => /\ Open(NeighbourValue(ZeroSecondary)) => (command = ZeroSecondary)
       /\ (~Open(NeighbourValue(ZeroSecondary)) /\ Open(NeighbourValue(ZeroTertiary)))
             => (command = ZeroTertiary)

\* horizontal dominant, goal to the right on the same row, RIGHT and DOWN
\* blocked, UP open: UP is emitted
C27_Witness ==
    /\ Decided
    /\ distance_x = 0 /\ distance_y > 0
    /\ right = 1 /\ down = 2 /\ up = 0 /\ left = 0
    /\ command = "UP"

(***************************************************************************)
(* C28: when both the requested start and the requested goal are accepted  *)
(* by check_location, the loop reports goal achieved only in a state where *)
(* the cell at the agent's position holds the goal marker 4.               *)
(***************************************************************************)
C28_GoalReachedOnGoalMarker ==
    (result_init /\ result_goal /\ outcome = "goal_achieved") =>
        /\ ValidCell(map, coordinate_x, coordinate_y)
        /\ Cell(map, coordinate_x, coordinate_y) = 4

\* a run of several moves, start and goal accepted, has reached the goal
C28_Witness ==
    /\ result_init /\ result_goal
    /\ outcome = "goal_achieved"
    /\ DecisionsMade >= 3
    /\ Cell(map, coordinate_x, coordinate_y) = 4

(***************************************************************************)
(* C29: the step count reported at termination equals the number of loop   *)
(* iterations executed.  A run that reaches the goal after k commands      *)
(* reports k + 1; a run that ends at the step limit has decided and        *)
(* applied exactly StepLimit + 2 = 102 commands and reports 102, the limit *)
(* test steps > 100 being made before the counter is incremented.  With    *)
(* the channel on, `sent` counts the commands independently of steps: k    *)
(* commands and the final GOAL.                                            *)
(***************************************************************************)
ReportedCount ==
    (pc = "done") =>
        /\ reported_steps = steps
        /\ (outcome = "goal_achieved") =>
              /\ reported_steps = DecisionsMade + 1
              /\ yarp_mode => (sent = reported_steps)
        /\ (outcome = "goal_not_achieved") =>
              /\ DecisionsMade = StepLimit + 2
              /\ reported_steps = StepLimit + 2
              /\ yarp_mode => (sent = StepLimit + 3)

IterationCounted ==
    /\ (steps' # steps) => (steps' = steps + 1) /\ (pc \in {"loop", "wait_ack"})
    /\ (outcome = "none" /\ outcome' = "goal_achieved") =>
          /\ steps' = steps + 1
          /\ yarp_mode => (sent = steps)
    /\ (outcome = "none" /\ outcome' = "goal_not_achieved") =>
          /\ steps = StepLimit + 1
          /\ steps' = StepLimit + 2
          /\ yarp_mode => (sent = StepLimit + 2)

C29_ReportedStepsCountIterations ==
    /\ [](ReportedCount)
    /\ [][IterationCounted]_vars

\* a run on the channel that ended at the step limit and reported 102
C29_Witness ==
    /\ pc = "done"
    /\ outcome = "goal_not_achieved"
    /\ yarp_mode
    /\ reported_steps = StepLimit + 2
    /\ sent = StepLimit + 3

====
